---- MODULE Spec2Model ----
(***************************************************************************)
(* A model of the tai64 package (src/tai64/__init__.py): the three value   *)
(* types tai, tain and taia, their constructors, their binary and hex      *)
(* codecs, replace, and the comparison protocol.                           *)
(*                                                                         *)
(* Python integers are unbounded while TLC's are 32 bits wide, so a Python *)
(* int is modelled as a sign and four 16-bit limbs, most significant       *)
(* first: enough for every value a 64-bit field can decode to.  bytes are  *)
(* sequences of 0..255 and str values are sequences of code points, one    *)
(* for each character.                                                     *)
(***************************************************************************)
EXTENDS Integers, Sequences, FiniteSets, TLC

VARIABLES t, last, a, b, c, res

vars == <<t, last, a, b, c, res>>

-----------------------------------------------------------------------------
(* Python values *)

Base == 2^16

ZeroMag == <<0, 0, 0, 0>>

IntV(neg, mag) == [kind |-> "int", neg |-> neg, mag |-> mag]

\* An int literal that fits TLC's integers.
IntOf(n) ==
    IF n < 0 THEN IntV(TRUE, <<0, 0, (0 - n) \div Base, (0 - n) % Base>>)
    ELSE IntV(FALSE, <<0, 0, n \div Base, n % Base>>)

\* 2**k for k in 0..63.
IntPow2(k) == IntV(FALSE, [i \in 1..4 |-> IF i = 4 - (k \div 16) THEN 2^(k % 16) ELSE 0])

MagLt(x, y) == \E i \in 1..4 : x[i] < y[i] /\ \A j \in 1..(i - 1) : x[j] = y[j]

RECURSIVE Borrow(_, _, _)
Borrow(x, y, i) ==
    IF i = 4 THEN 0
    ELSE IF x[i + 1] - y[i + 1] - Borrow(x, y, i + 1) < 0 THEN 1 ELSE 0

MagSub(x, y) == [i \in 1..4 |-> (x[i] - y[i] - Borrow(x, y, i)) % Base]

\* x - y for ints 0 <= y <= x (the only subtraction the source performs: 2**63 - 1).
IntSub(x, y) == IntV(FALSE, MagSub(x.mag, y.mag))

\* Python's < and <= on two ints.
IntLt(x, y) ==
    IF x.neg # y.neg THEN x.neg
    ELSE IF x.neg THEN MagLt(y.mag, x.mag)
    ELSE MagLt(x.mag, y.mag)

IntLe(x, y) == IntLt(x, y) \/ (x.neg = y.neg /\ x.mag = y.mag)

\* Values that are not ints: None, a float, a str, and an empty slot.
PyNone == [kind |-> "NoneType", neg |-> FALSE, mag |-> ZeroMag]

PyFloat1 == [kind |-> "float", neg |-> FALSE, mag |-> <<0, 0, 0, 1>>]

PyStr1 == [kind |-> "str", neg |-> FALSE, mag |-> <<0, 0, 0, 1>>]

Unset == [kind |-> "unset", neg |-> FALSE, mag |-> ZeroMag]

-----------------------------------------------------------------------------
(* Module constants *)

EPOCH == IntPow2(62)

MIN == IntOf(0)

MAX == IntSub(IntPow2(63), IntOf(1))

NANO_MAX == IntOf(999999999)

-----------------------------------------------------------------------------
(* Exceptions and call outcomes *)

NoExc == [type |-> "none", msg |-> "", val |-> Unset]

ValueError(msg, val) == [type |-> "ValueError", msg |-> msg, val |-> val]

TypeError(msg) == [type |-> "TypeError", msg |-> msg, val |-> Unset]

StructError(msg) == [type |-> "struct.error", msg |-> msg, val |-> Unset]

BinasciiError(msg) == [type |-> "binascii.Error", msg |-> msg, val |-> Unset]

\* No instance: what a caller has in hand when a call raised.
NoObj == [cls |-> "none", sec |-> Unset, nano |-> Unset, atto |-> Unset]

\* object.__new__(cls): an instance of cls with every slot empty.
ObjectNew(cls) == [cls |-> cls, sec |-> Unset, nano |-> Unset, atto |-> Unset]

\* The outcome of a call that builds an instance: the exception raised (or
\* NoExc), the instance returned (NoObj when it raised) and, in self, the
\* object the frame was filling in when it ended.
Return(self) == [exc |-> NoExc, ret |-> self, self |-> self]

Raise(exc, self) == [exc |-> exc, ret |-> NoObj, self |-> self]

\* Mutant: int(v) in place of operator.index(v): 1.0 and '1' become 1.
Index_int(v) ==
    IF v.kind \in {"int", "float", "str"}
    THEN [exc |-> NoExc, val |-> IntV(v.neg, v.mag)]
    ELSE [exc |-> TypeError("int() argument must be a string, a bytes-like object or a real number"), val |-> Unset]

\* operator.index(v)
Index(v) ==
    IF v.kind = "int" THEN [exc |-> NoExc, val |-> v]
    ELSE [exc |-> TypeError("object cannot be interpreted as an integer"), val |-> Unset]

-----------------------------------------------------------------------------
(* Classes and constructors *)

Classes == {"tai", "tain", "taia"}

\* The classes cls derives from, itself included (tai <- tain <- taia).
Mro(cls) ==
    CASE cls = "tai" -> {"tai"}
      [] cls = "tain" -> {"tain", "tai"}
      [] cls = "taia" -> {"taia", "tain", "tai"}
      [] OTHER -> {}

IsSubclass(sub, base) == base \in Mro(sub)

\* tai.__new__ from the range check on: self has its sec slot filled.
tai_new_check(self) ==
    IF ~(IntLe(MIN, self.sec) /\ IntLe(self.sec, MAX))
    THEN Raise(ValueError("sec must be in 0..2**63-1", self.sec), self)
    ELSE Return(self)

\* self._sec = operator.index(sec), ix being what operator.index gave.
tai_new_set(self, ix) ==
    IF ix.exc # NoExc THEN Raise(ix.exc, self)
    ELSE tai_new_check([self EXCEPT !.sec = ix.val])

tai_new(cls, sec) == tai_new_set(ObjectNew(cls), Index(sec))

tain_new_check(self) ==
    IF ~(IntLe(IntOf(0), self.nano) /\ IntLe(self.nano, NANO_MAX))
    THEN Raise(ValueError("nano must be in 0..999_999_999", self.nano), self)
    ELSE Return(self)

tain_new_set(self, ix) ==
    IF ix.exc # NoExc THEN Raise(ix.exc, self)
    ELSE tain_new_check([self EXCEPT !.nano = ix.val])

\* tain.__new__ after super().__new__(cls, sec) came back as sup.
tain_new_rest(sup, nano) ==
    IF sup.exc # NoExc THEN sup ELSE tain_new_set(sup.ret, Index(nano))

tain_new(cls, sec, nano) == tain_new_rest(tai_new(cls, sec), nano)

\* Mutant: the upper bound of atto off by one.
taia_new_check_offbyone(self) ==
    IF ~(IntLe(IntOf(0), self.atto) /\ IntLe(self.atto, IntOf(1000000000)))
    THEN Raise(ValueError("atto must be in 0..999_999_999", self.atto), self)
    ELSE Return(self)

taia_new_check(self) ==
    IF ~(IntLe(IntOf(0), self.atto) /\ IntLe(self.atto, NANO_MAX))
    THEN Raise(ValueError("atto must be in 0..999_999_999", self.atto), self)
    ELSE Return(self)

taia_new_set(self, ix) ==
    IF ix.exc # NoExc THEN Raise(ix.exc, self)
    ELSE taia_new_check([self EXCEPT !.atto = ix.val])

\* taia.__new__ after super().__new__(cls, sec, nano) came back as sup.
taia_new_rest(sup, atto) ==
    IF sup.exc # NoExc THEN sup ELSE taia_new_set(sup.ret, Index(atto))

taia_new(cls, sec, nano, atto) == taia_new_rest(tain_new(cls, sec, nano), atto)

\* cls(*args): the call binds args to the parameters of cls.__new__.
Construct(cls, args) ==
    CASE cls = "tai" /\ Len(args) = 1 -> tai_new(cls, args[1])
      [] cls = "tain" /\ Len(args) = 2 -> tain_new(cls, args[1], args[2])
      [] cls = "taia" /\ Len(args) = 3 -> taia_new(cls, args[1], args[2], args[3])
      [] OTHER -> Raise(TypeError("__new__() got the wrong number of arguments"), NoObj)

-----------------------------------------------------------------------------
(* struct.Struct('>Q'), ('>QL'), ('>QLL') and binascii *)

\* cls._struct: the format codes after the big-endian marker '>'.
Format(cls) ==
    CASE cls = "tai" -> <<"Q">>
      [] cls = "tain" -> <<"Q", "L">>
      [] cls = "taia" -> <<"Q", "L", "L">>

\* Bytes of one format code: Q is an unsigned 64-bit, L an unsigned 32-bit.
CodeSize(code) == IF code = "Q" THEN 8 ELSE 4

RECURSIVE CalcSize(_)
CalcSize(fmt) == IF fmt = <<>> THEN 0 ELSE CodeSize(Head(fmt)) + CalcSize(Tail(fmt))

StructSize(cls) == CalcSize(Format(cls))

\* Mutant: least significant byte first.
MagBytes_little(mag) ==
    [i \in 1..8 |->
        IF i % 2 = 1 THEN mag[4 - ((i - 1) \div 2)] % 256 ELSE mag[4 - ((i - 1) \div 2)] \div 256]

\* The 8 big-endian bytes of a magnitude.
MagBytes(mag) ==
    [i \in 1..8 |-> IF i % 2 = 1 THEN mag[(i + 1) \div 2] \div 256 ELSE mag[i \div 2] % 256]

\* The magnitude of 4 or 8 big-endian bytes.
\* Mutant: the two bytes of each 16-bit limb read in the wrong order.
PadMag_swapped(pad) == [i \in 1..4 |-> pad[2 * i] * 256 + pad[2 * i - 1]]

PadMag(pad) == [i \in 1..4 |-> pad[2 * i - 1] * 256 + pad[2 * i]]

BytesMag(bs) == PadMag([i \in 1..(8 - Len(bs)) |-> 0] \o bs)

\* One value as n big-endian bytes; fits says whether n bytes can hold it.
PackBytes(n, all, isint) ==
    [fits |-> isint /\ \A i \in 1..(8 - n) : all[i] = 0, bytes |-> SubSeq(all, 9 - n, 8)]

\* The bytes of a packed field in the opposite order.
Reversed(r) == [fits |-> r.fits, bytes |-> [i \in 1..Len(r.bytes) |-> r.bytes[Len(r.bytes) + 1 - i]]]

\* Mutant: the format '<', every field least significant byte first.
PackOne_little(code, v) ==
    Reversed(PackBytes(CodeSize(code), MagBytes(v.mag), v.kind = "int" /\ ~v.neg))

PackOne(code, v) == PackBytes(CodeSize(code), MagBytes(v.mag), v.kind = "int" /\ ~v.neg)

RECURSIVE PackAll(_, _)
PackAll(fmt, args) ==
    IF fmt = <<>> THEN <<>>
    ELSE PackOne(Head(fmt), Head(args)).bytes \o PackAll(Tail(fmt), Tail(args))

\* Struct.pack(*args)
StructPack(fmt, args) ==
    IF Len(args) # Len(fmt)
    THEN [exc |-> StructError("pack expected a different number of items"), bytes |-> <<>>]
    ELSE IF \E i \in 1..Len(fmt) : ~PackOne(fmt[i], args[i]).fits
    THEN [exc |-> StructError("argument out of range"), bytes |-> <<>>]
    ELSE [exc |-> NoExc, bytes |-> PackAll(fmt, args)]

RECURSIVE UnpackAll(_, _)
UnpackAll(fmt, buf) ==
    IF fmt = <<>> THEN <<>>
    ELSE <<IntV(FALSE, BytesMag(SubSeq(buf, 1, CodeSize(Head(fmt)))))>>
         \o UnpackAll(Tail(fmt), SubSeq(buf, CodeSize(Head(fmt)) + 1, Len(buf)))

\* Mutant: Struct.unpack_from(buf), which reads the leading bytes of a longer
\* buffer.
StructUnpack_from(fmt, buf) ==
    IF Len(buf) < CalcSize(fmt)
    THEN [exc |-> StructError("unpack_from requires a buffer of at least the struct's size"),
          vals |-> <<>>]
    ELSE [exc |-> NoExc, vals |-> UnpackAll(fmt, SubSeq(buf, 1, CalcSize(fmt)))]

\* Struct.unpack(buf): the buffer must be exactly the struct's size.
StructUnpack(fmt, buf) ==
    IF Len(buf) # CalcSize(fmt)
    THEN [exc |-> StructError("unpack requires a buffer of the struct's size"), vals |-> <<>>]
    ELSE [exc |-> NoExc, vals |-> UnpackAll(fmt, buf)]

\* A text is the sequence of the code points of its characters.
\* '0'..'9' and 'a'..'f'
HexDigits == <<48, 49, 50, 51, 52, 53, 54, 55, 56, 57, 97, 98, 99, 100, 101, 102>>

\* '0'..'9' and 'A'..'F'
UpperHexDigits == <<48, 49, 50, 51, 52, 53, 54, 55, 56, 57, 65, 66, 67, 68, 69, 70>>

IsHexDigit(ch) == \E i \in 1..16 : HexDigits[i] = ch \/ UpperHexDigits[i] = ch

HexVal(ch) == (CHOOSE i \in 1..16 : HexDigits[i] = ch \/ UpperHexDigits[i] = ch) - 1

\* bytes.hex(): two lowercase digits per byte.
BytesHex(bs) ==
    [i \in 1..(2 * Len(bs)) |->
        IF i % 2 = 1 THEN HexDigits[(bs[(i + 1) \div 2] \div 16) + 1]
        ELSE HexDigits[(bs[i \div 2] % 16) + 1]]

\* A character is ASCII when it is below U+0080, the control characters
\* U+0000 to U+001F and U+007F included.
IsAscii(ch) == ch < 128

\* binascii.a2b_hex(s), s a str: a character that is not ASCII is refused
\* with a plain ValueError before the length and the digits are looked at.
a2b_hex(s) ==
    IF \E i \in 1..Len(s) : ~IsAscii(s[i])
    THEN [exc |-> ValueError("string argument should contain only ASCII characters", Unset),
          bytes |-> <<>>]
    ELSE IF Len(s) % 2 # 0
    THEN [exc |-> BinasciiError("Odd-length string"), bytes |-> <<>>]
    ELSE IF \E i \in 1..Len(s) : ~IsHexDigit(s[i])
    THEN [exc |-> BinasciiError("Non-hexadecimal digit found"), bytes |-> <<>>]
    ELSE [exc |-> NoExc,
          bytes |-> [i \in 1..(Len(s) \div 2) |-> HexVal(s[2 * i - 1]) * 16 + HexVal(s[2 * i])]]

\* Mutant: the text is not cut to the width.
Slice0_whole(s, n) == s

\* s[0:n]
Slice0(s, n) == SubSeq(s, 1, IF Len(s) < n THEN Len(s) ELSE n)

-----------------------------------------------------------------------------
(* Methods *)

tai_tuple(self) == <<self.sec>>

tain_tuple(self) == <<self.sec, self.nano>>

taia_tuple(self) == <<self.sec, self.nano, self.atto>>

\* self._tuple(), resolved on type(self).
Tuple(self) ==
    CASE self.cls = "tai" -> tai_tuple(self)
      [] self.cls = "tain" -> tain_tuple(self)
      [] self.cls = "taia" -> taia_tuple(self)

\* self.size
size(self) == StructSize(self.cls)

\* What a method hands back: r's exception and result, and the receiver as
\* the call leaves it.
Outcome(r, self) == [exc |-> r.exc, ret |-> r.ret, self |-> self]

PackOutcome(r, self) == [exc |-> r.exc, bytes |-> r.bytes, self |-> self]

\* self.pack()
pack(self) == PackOutcome(StructPack(Format(self.cls), Tuple(self)), self)

HexOutcome(r) ==
    [exc |-> r.exc, text |-> IF r.exc = NoExc THEN BytesHex(r.bytes) ELSE <<>>,
     self |-> r.self]

\* self.hex()
hex(self) == HexOutcome(pack(self))

\* Mutant: the decoded fields put into a fresh object without the constructor.
unpack_construct_unchecked(cls, r) ==
    IF r.exc # NoExc THEN Raise(r.exc, NoObj)
    ELSE Return([cls |-> cls, sec |-> r.vals[1],
                 nano |-> IF Len(r.vals) >= 2 THEN r.vals[2] ELSE Unset,
                 atto |-> IF Len(r.vals) >= 3 THEN r.vals[3] ELSE Unset])

\* return cls(*args), r being what cls._struct.unpack(buf) gave.
unpack_construct(cls, r) ==
    IF r.exc # NoExc THEN Raise(r.exc, NoObj) ELSE Construct(cls, r.vals)

\* cls.unpack(buf)
unpack(cls, buf) == unpack_construct(cls, StructUnpack(Format(cls), buf))

\* return cls.unpack(buf), r being what binascii.a2b_hex gave.
from_hex_unpack(cls, r) ==
    IF r.exc # NoExc THEN Raise(r.exc, NoObj) ELSE unpack(cls, r.bytes)

\* cls.from_hex(s)
from_hex(cls, s) == from_hex_unpack(cls, a2b_hex(Slice0(s, StructSize(cls) * 2)))

-----------------------------------------------------------------------------
(* __str__: f'{self._sec}' and f'{self._nano:>09}' *)

\* '0'..'9'
DecDigits == <<48, 49, 50, 51, 52, 53, 54, 55, 56, 57>>

\* The remainder by 10 of the leading i limbs of a magnitude.
RECURSIVE Rem10(_, _)
Rem10(mag, i) == IF i = 0 THEN 0 ELSE (Rem10(mag, i - 1) * Base + mag[i]) % 10

\* mag // 10
Div10(mag) == [i \in 1..4 |-> (Rem10(mag, i - 1) * Base + mag[i]) \div 10]

\* The decimal digits of a magnitude, none for zero.
RECURSIVE MagDigits(_)
MagDigits(mag) ==
    IF mag = ZeroMag THEN <<>>
    ELSE MagDigits(Div10(mag)) \o <<DecDigits[Rem10(mag, 4) + 1]>>

\* f'{v}' of an int v: its decimal, '-' (45) in front of a negative one
\* and '0' (48) for zero.
IntStr(v) ==
    (IF v.neg THEN <<45>> ELSE <<>>)
    \o (IF v.mag = ZeroMag THEN <<48>> ELSE MagDigits(v.mag))

\* The text s right-aligned in 9 columns, the fill being '0' (48).
RightAlign9(s) == [i \in 1..(IF Len(s) < 9 THEN 9 - Len(s) ELSE 0) |-> 48] \o s

\* Mutant: the field formatted without a width.
Format09_unpadded(v) == IntStr(v)

\* f'{v:>09}'
Format09(v) == RightAlign9(IntStr(v))

\* An int is true when it is not zero.
Truthy(v) == v.mag # ZeroMag

tai_str(self) == IntStr(self.sec)

\* '.' is 46 and '.0' is 46, 48.
tain_str(self) ==
    IF Truthy(self.nano) THEN IntStr(self.sec) \o <<46>> \o Format09(self.nano)
    ELSE IntStr(self.sec) \o <<46, 48>>

taia_str(self) ==
    IF Truthy(self.atto)
    THEN IntStr(self.sec) \o <<46>> \o Format09(self.nano) \o Format09(self.atto)
    ELSE IF Truthy(self.nano) THEN IntStr(self.sec) \o <<46>> \o Format09(self.nano)
    ELSE IntStr(self.sec) \o <<46, 48>>

\* str(self), resolved on type(self).
str(self) ==
    CASE self.cls = "tai" -> tai_str(self)
      [] self.cls = "tain" -> tain_str(self)
      [] self.cls = "taia" -> taia_str(self)

-----------------------------------------------------------------------------
(* __hash__: hash((self.__class__, *self._tuple())) *)

\* The carry into limb i of x + k, k a small number.
RECURSIVE CarryIn(_, _, _)
CarryIn(x, k, i) == IF i = 4 THEN k ELSE (x[i + 1] + CarryIn(x, k, i + 1)) \div Base

MagAddSmall(x, k) == [i \in 1..4 |-> (x[i] + CarryIn(x, k, i)) % Base]

\* The modulus of the hash of numbers, 2**61 - 1.
HashModulus == IntSub(IntPow2(61), IntOf(1))

\* s mod 2**61-1 for s below twice the modulus.
HashReduce(s) == IF MagLt(s, HashModulus.mag) THEN s ELSE MagSub(s, HashModulus.mag)

\* hash(v) of an int 0 <= v < 2**64: v mod 2**61-1, the bits from 61 up
\* folded onto the lower ones.
IntHash(v) ==
    IntV(FALSE, HashReduce(MagAddSmall(<<v.mag[1] % 8192, v.mag[2], v.mag[3], v.mag[4]>>,
                                       v.mag[1] \div 8192)))

\* hash(cls) of a class: its identity.
ClassHash(cls) == [kind |-> "type", id |-> cls]

\* hash(key) of a tuple: a mix of the hashes of its items in their order and
\* of its length, kept here as the sequence of the item hashes.
TupleHash(key) == [i \in 1..Len(key) |-> IF i = 1 THEN ClassHash(key[1]) ELSE IntHash(key[i])]

\* (self.__class__, *self._tuple())
HashKey(self) == <<self.cls>> \o Tuple(self)

\* hash(self)
hash(self) == TupleHash(HashKey(self))

\* A keyword the caller leaves out arrives as the default None.
Arg(v) == IF v = Unset THEN PyNone ELSE v

\* if v is None: v = <the slot>
OrSlot(v, slot) == IF v = PyNone THEN slot ELSE v

tai_replace(self, sec) ==
    Outcome(Construct(self.cls, <<OrSlot(sec, self.sec)>>), self)

\* Mutant: the nano given is dropped and the receiver's kept.
tain_replace_keepnano(self, sec, nano) ==
    Outcome(Construct(self.cls, <<OrSlot(sec, self.sec), self.nano>>), self)

tain_replace(self, sec, nano) ==
    Outcome(Construct(self.cls, <<OrSlot(sec, self.sec), OrSlot(nano, self.nano)>>), self)

\* Mutant: the receiver's own slots overwritten and the receiver returned.
taia_replace_inplace(self, sec, nano, atto) ==
    Return([self EXCEPT !.sec = OrSlot(sec, self.sec), !.nano = OrSlot(nano, self.nano),
                        !.atto = OrSlot(atto, self.atto)])

taia_replace(self, sec, nano, atto) ==
    Outcome(Construct(self.cls, <<OrSlot(sec, self.sec), OrSlot(nano, self.nano),
                                  OrSlot(atto, self.atto)>>), self)

\* self.replace(**kw), resolved on type(self); kw holds Unset for a keyword
\* the caller leaves out.
replace(self, kw) ==
    CASE self.cls = "tai" /\ kw.nano = Unset /\ kw.atto = Unset ->
            tai_replace(self, Arg(kw.sec))
      [] self.cls = "tain" /\ kw.atto = Unset ->
            tain_replace(self, Arg(kw.sec), Arg(kw.nano))
      [] self.cls = "taia" ->
            taia_replace(self, Arg(kw.sec), Arg(kw.nano), Arg(kw.atto))
      [] OTHER ->
            [exc |-> TypeError("replace() got an unexpected keyword argument"),
             ret |-> NoObj, self |-> self]

-----------------------------------------------------------------------------
(* Comparison *)

Ops == {"eq", "ne", "lt", "le", "gt", "ge"}

\* Lexicographic order on tuples of ints, as Python compares tuples.
TupleEq(x, y) == Len(x) = Len(y) /\ \A i \in 1..Len(x) : x[i] = y[i]

TupleLt(x, y) ==
    LET n == IF Len(x) < Len(y) THEN Len(x) ELSE Len(y)
    IN  \/ \E i \in 1..n : IntLt(x[i], y[i]) /\ \A j \in 1..(i - 1) : x[j] = y[j]
        \/ Len(x) < Len(y) /\ \A j \in 1..n : x[j] = y[j]

\* Mutant of TupleOp: <= and >= taken as the strict comparisons.
TupleOp_strict(op, x, y) ==
    CASE op = "eq" -> TupleEq(x, y)
      [] op = "ne" -> ~TupleEq(x, y)
      [] op = "lt" -> TupleLt(x, y)
      [] op = "le" -> TupleLt(x, y)
      [] op = "gt" -> TupleLt(y, x)
      [] op = "ge" -> TupleLt(y, x)

\* operator.eq, .ne, .lt, .le, .gt, .ge applied to two tuples.
TupleOp(op, x, y) ==
    CASE op = "eq" -> TupleEq(x, y)
      [] op = "ne" -> ~TupleEq(x, y)
      [] op = "lt" -> TupleLt(x, y)
      [] op = "le" -> TupleLt(x, y) \/ TupleEq(x, y)
      [] op = "gt" -> TupleLt(y, x)
      [] op = "ge" -> TupleLt(y, x) \/ TupleEq(x, y)

Bool(p) == IF p THEN "True" ELSE "False"

Not(r) == IF r = "True" THEN "False" ELSE "True"

\* An operand that is no instance of the three classes: its type's name in
\* cls and the value itself in sec.
Foreign(v) == [cls |-> v.kind, sec |-> v, nano |-> Unset, atto |-> Unset]

\* Mutant of tai._compare: answers False for another type instead of declining.
tai_compare_false(self, op, other) ==
    IF other.cls = self.cls THEN Bool(TupleOp(op, Tuple(self), Tuple(other)))
    ELSE "False"

tai_compare(self, op, other) ==
    IF other.cls = self.cls THEN Bool(TupleOp(op, Tuple(self), Tuple(other)))
    ELSE "NotImplemented"

\* Mutant of tain._compare: the branch for a tai operand is missing.
tain_compare_sametype(self, op, other) ==
    IF other.cls = self.cls THEN Bool(TupleOp(op, Tuple(self), Tuple(other)))
    ELSE "NotImplemented"

tain_compare(self, op, other) ==
    IF other.cls = self.cls THEN Bool(TupleOp(op, Tuple(self), Tuple(other)))
    ELSE IF other.cls = "tai" THEN Bool(TupleOp(op, Tuple(self), Tuple(other) \o <<IntOf(0)>>))
    ELSE "NotImplemented"

\* Mutant of taia._compare: a tai operand is padded with one zero, not two.
taia_compare_onepad(self, op, other) ==
    IF other.cls = self.cls THEN Bool(TupleOp(op, Tuple(self), Tuple(other)))
    ELSE IF other.cls = "tain" THEN Bool(TupleOp(op, Tuple(self), Tuple(other) \o <<IntOf(0)>>))
    ELSE IF other.cls = "tai"
    THEN Bool(TupleOp(op, Tuple(self), Tuple(other) \o <<IntOf(0)>>))
    ELSE "NotImplemented"

taia_compare(self, op, other) ==
    IF other.cls = self.cls THEN Bool(TupleOp(op, Tuple(self), Tuple(other)))
    ELSE IF other.cls = "tain" THEN Bool(TupleOp(op, Tuple(self), Tuple(other) \o <<IntOf(0)>>))
    ELSE IF other.cls = "tai"
    THEN Bool(TupleOp(op, Tuple(self), Tuple(other) \o <<IntOf(0), IntOf(0)>>))
    ELSE "NotImplemented"

\* self._compare(op, other), resolved on type(self).
Compare(self, op, other) ==
    CASE self.cls = "tai" -> tai_compare(self, op, other)
      [] self.cls = "tain" -> tain_compare(self, op, other)
      [] self.cls = "taia" -> taia_compare(self, op, other)

\* x <op> y on the values of two ints, or of two strs (the strs here are
\* one-digit texts, which order as their digits do).
ValueOp(op, x, y) ==
    CASE op = "eq" -> x = y
      [] op = "ne" -> x # y
      [] op = "lt" -> IntLt(x, y)
      [] op = "le" -> IntLe(x, y)
      [] op = "gt" -> IntLt(y, x)
      [] op = "ge" -> IntLe(y, x)

\* The methods NoneType has from object: == and != by identity, no order.
NoneOp(op) ==
    CASE op = "eq" -> "True"
      [] op = "ne" -> "False"
      [] OTHER -> "NotImplemented"

\* The comparison method of int, str or NoneType, called as v.__op__(w): it
\* answers for a w of its own type and declines any other, the three classes
\* included.
BuiltinMethod(v, op, w) ==
    IF w.cls # v.cls THEN "NotImplemented"
    ELSE IF v.cls = "NoneType" THEN NoneOp(op)
    ELSE Bool(ValueOp(op, v.sec, w.sec))

\* The comparison method of type(v) for op, called as v.__op__(w).  The five
\* methods the class defines hand over to _compare; __ne__ is the one
\* inherited from object, which negates __eq__ unless that is NotImplemented.
\* int, str and None know nothing of the three classes.
Method(v, op, w) ==
    IF v.cls \notin Classes THEN BuiltinMethod(v, op, w)
    ELSE IF op = "ne"
    THEN LET r == Compare(v, "eq", w)
         IN  IF r = "NotImplemented" THEN r ELSE Not(r)
    ELSE Compare(v, op, w)

\* Mutant of the reflection: the reflected method is taken to be the same one.
Swapped_same(op) == op

Swapped(op) ==
    CASE op = "lt" -> "gt"
      [] op = "gt" -> "lt"
      [] op = "le" -> "ge"
      [] op = "ge" -> "le"
      [] OTHER -> op

\* The expression v <op> w: the reflected method of w goes first when type(w)
\* is a proper subclass of type(v), then v's method, then w's reflected one;
\* when all decline, == and != fall back to identity (two operands of
\* different types are never one object) and the ordering operators raise
\* TypeError.
RichCompare(v, op, w) ==
    LET first == v.cls # w.cls /\ IsSubclass(w.cls, v.cls)
        r1 == IF first THEN Method(w, Swapped(op), v) ELSE "NotImplemented"
        r2 == Method(v, op, w)
        r3 == IF first THEN "NotImplemented" ELSE Method(w, Swapped(op), v)
    IN  IF r1 # "NotImplemented" THEN r1
        ELSE IF r2 # "NotImplemented" THEN r2
        ELSE IF r3 # "NotImplemented" THEN r3
        ELSE CASE op = "eq" -> "False"
               [] op = "ne" -> "True"
               [] OTHER -> "TypeError"

-----------------------------------------------------------------------------
(* Inputs: field values on and around every range boundary *)

SecSamples == {IntOf(-1), IntOf(0), IntSub(EPOCH, IntOf(1)), EPOCH, MAX, IntPow2(63)}

NanoSamples == {IntOf(-1), IntOf(0), IntOf(1), NANO_MAX, IntOf(1000000000)}

AttoSamples == {IntOf(-1), IntOf(0), IntOf(1), NANO_MAX, IntOf(1000000000)}

ArgSamples ==
    [cls \in Classes |->
        CASE cls = "tai" -> {<<s>> : s \in SecSamples}
          [] cls = "tain" -> {<<s, n>> : s \in SecSamples, n \in NanoSamples}
          [] cls = "taia" ->
                {<<s, n, z>> : s \in SecSamples, n \in NanoSamples, z \in AttoSamples}]

\* 0, 2**62-1, 2**62, 2**63-1, 2**63 and 2**64-1 as 8 bytes.
SecBytes ==
    { <<0, 0, 0, 0, 0, 0, 0, 0>>,
      <<63, 255, 255, 255, 255, 255, 255, 255>>,
      <<64, 0, 0, 0, 0, 0, 0, 0>>,
      <<127, 255, 255, 255, 255, 255, 255, 255>>,
      <<128, 0, 0, 0, 0, 0, 0, 0>>,
      <<255, 255, 255, 255, 255, 255, 255, 255>> }

\* 0, 1, 999999999, 1000000000 and 2**32-1 as 4 bytes.
WordBytes ==
    { <<0, 0, 0, 0>>, <<0, 0, 0, 1>>, <<59, 154, 201, 255>>, <<59, 154, 202, 0>>,
      <<255, 255, 255, 255>> }

BufSamples ==
    [cls \in Classes |->
        CASE cls = "tai" -> SecBytes
          [] cls = "tain" -> {s \o n : s \in SecBytes, n \in WordBytes}
          [] cls = "taia" -> {s \o n \o z : s \in SecBytes, n \in WordBytes, z \in WordBytes}]

\* Buffers that are not of the class's width: every sample with its last
\* byte cut off or a zero byte added, the empty buffer, and the valid
\* samples of the other two classes (4 or 8 bytes more or fewer).
LengthSamples ==
    [cls \in Classes |->
        {SubSeq(buf, 1, Len(buf) - 1) : buf \in BufSamples[cls]}
        \cup {buf \o <<0>> : buf \in BufSamples[cls]}
        \cup {<<>>}
        \cup UNION {{buf \in BufSamples[other] : buf[1] < 128 /\ buf[Len(buf)] <= 1}
                        : other \in Classes \ {cls}}]

HexSamples == [cls \in Classes |-> {BytesHex(buf) : buf \in BufSamples[cls]}]

\* Characters that are no hex digit: the control characters U+0001 and
\* U+007F, U+0060 and 'g' (103), which are ASCII, and U+0080, U+00E9 and
\* U+20AC, which are not.
OddChars == {1, 96, 103, 127, 128, 233, 8364}

\* Texts that are not the hex of a buffer of the class's width: the hex of
\* sec = 2**62-1 (and every nano and atto word), which starts with '3' (51),
\* with its first or its last character replaced by one that is no hex
\* digit, with one character or one byte missing, and the empty text.
MalformedHexSamples ==
    [cls \in Classes |->
        UNION {{[s EXCEPT ![1] = ch] : ch \in OddChars}
               \cup {[s EXCEPT ![Len(s)] = ch] : ch \in OddChars}
               \cup {SubSeq(s, 1, Len(s) - 1), SubSeq(s, 1, Len(s) - 2)}
                   : s \in {x \in HexSamples[cls] : x[1] = 51}}
        \cup {<<>>}]

\* Characters a caller may have after the hex text: more hex digits ('0',
\* 'fF', '00000001'), other characters ('z', U+0001, U+00E9, 'zz!'), an odd
\* or an even number of them.
TrailSamples ==
    { <<48>>, <<122>>, <<1>>, <<233>>, <<102, 70>>, <<122, 122, 33>>,
      <<48, 48, 48, 48, 48, 48, 48, 49>> }

\* Values that are not integral numbers: None, 1.0 and '1'.
NonInts == {PyNone, PyFloat1, PyStr1}

\* Ints to go with them: one in every range, one in none.
PlainInts == {IntOf(1), IntOf(-1)}

\* Constructor arguments of which one at least is not an integral number.
NonIntArgSamples ==
    [cls \in Classes |->
        CASE cls = "tai" -> {<<s>> : s \in NonInts}
          [] cls = "tain" ->
                {<<s, n>> : s \in NonInts \cup PlainInts, n \in NonInts \cup PlainInts}
                    \ {<<s, n>> : s \in PlainInts, n \in PlainInts}
          [] cls = "taia" ->
                {<<s, n, z>> : s \in NonInts \cup PlainInts, n \in NonInts \cup PlainInts,
                               z \in NonInts \cup PlainInts}
                    \ {<<s, n, z>> : s \in PlainInts, n \in PlainInts, z \in PlainInts}]

NoKw == [sec |-> Unset, nano |-> Unset, atto |-> Unset]

\* Keywords for replace: left out, a legal value, an illegal one.
KwSamples ==
    [sec : {Unset, EPOCH, IntOf(-1)},
     nano : {Unset, IntOf(1), IntOf(1000000000)},
     atto : {Unset, NANO_MAX, IntOf(-1)}]

-----------------------------------------------------------------------------
(* The caller: t is the instance it has bound (NoObj when none), last is   *)
(* the call it made last with what came back.                              *)

NoCall ==
    [op |-> "none", src |-> "", cls |-> "", args |-> <<>>, kw |-> NoKw,
     buf |-> <<>>, text |-> <<>>, exc |-> NoExc, ret |-> NoObj,
     outbytes |-> <<>>, outtext |-> <<>>]

NoRes == [op |-> "none", ab |-> "", ba |-> "", bc |-> "", ac |-> ""]

Init ==
    /\ t = NoObj
    /\ last = NoCall
    /\ a = NoObj /\ b = NoObj /\ c = NoObj
    /\ res = NoRes

\* t = cls(*args)
New ==
    /\ t = NoObj
    /\ \E cls \in Classes : \E args \in ArgSamples[cls] :
       \E o \in {Construct(cls, args)} :
           /\ last' = [NoCall EXCEPT !.op = "new", !.src = "sample", !.cls = cls,
                                     !.args = args, !.exc = o.exc, !.ret = o.ret]
           /\ t' = o.ret
    /\ UNCHANGED <<a, b, c, res>>

\* t = cls(*args), an argument not being an integral number
NewNonInt ==
    /\ t = NoObj
    /\ \E cls \in Classes : \E args \in NonIntArgSamples[cls] :
       \E o \in {Construct(cls, args)} :
           /\ last' = [NoCall EXCEPT !.op = "new", !.src = "nonint", !.cls = cls,
                                     !.args = args, !.exc = o.exc, !.ret = o.ret]
           /\ t' = o.ret
    /\ UNCHANGED <<a, b, c, res>>

\* t = cls.unpack(buf)
Unpack ==
    /\ t = NoObj
    /\ \E cls \in Classes : \E buf \in BufSamples[cls] :
       \E o \in {unpack(cls, buf)} :
           /\ last' = [NoCall EXCEPT !.op = "unpack", !.src = "sample", !.cls = cls,
                                     !.buf = buf, !.exc = o.exc, !.ret = o.ret]
           /\ t' = o.ret
    /\ UNCHANGED <<a, b, c, res>>

\* t = cls.unpack(buf), buf not of the class's width
UnpackLength ==
    /\ t = NoObj
    /\ \E cls \in Classes : \E buf \in LengthSamples[cls] :
       \E o \in {unpack(cls, buf)} :
           /\ last' = [NoCall EXCEPT !.op = "unpack", !.src = "length", !.cls = cls,
                                     !.buf = buf, !.exc = o.exc, !.ret = o.ret]
           /\ t' = o.ret
    /\ UNCHANGED <<a, b, c, res>>

\* t = cls.from_hex(s)
FromHex ==
    /\ t = NoObj
    /\ \E cls \in Classes : \E s \in HexSamples[cls] :
       \E o \in {from_hex(cls, s)} :
           /\ last' = [NoCall EXCEPT !.op = "from_hex", !.src = "sample", !.cls = cls,
                                     !.text = s, !.exc = o.exc, !.ret = o.ret]
           /\ t' = o.ret
    /\ UNCHANGED <<a, b, c, res>>

\* t = cls.from_hex(s), s not the hex of a buffer of the class's width
FromHexMalformed ==
    /\ t = NoObj
    /\ \E cls \in Classes : \E s \in MalformedHexSamples[cls] :
       \E o \in {from_hex(cls, s)} :
           /\ last' = [NoCall EXCEPT !.op = "from_hex", !.src = "malformed", !.cls = cls,
                                     !.text = s, !.exc = o.exc, !.ret = o.ret]
           /\ t' = o.ret
    /\ UNCHANGED <<a, b, c, res>>

\* t.pack()
Pack ==
    /\ t # NoObj
    /\ \E o \in {pack(t)} :
           /\ last' = [NoCall EXCEPT !.op = "pack", !.cls = t.cls, !.exc = o.exc,
                                     !.outbytes = o.bytes]
           /\ t' = o.self
    /\ UNCHANGED <<a, b, c, res>>

\* t.hex()
Hex ==
    /\ t # NoObj
    /\ \E o \in {hex(t)} :
           /\ last' = [NoCall EXCEPT !.op = "hex", !.cls = t.cls, !.exc = o.exc,
                                     !.outtext = o.text]
           /\ t' = o.self
    /\ UNCHANGED <<a, b, c, res>>

\* type(t).unpack(t.pack()), the second half
UnpackPacked ==
    /\ t # NoObj
    /\ last.op = "pack" /\ last.exc = NoExc
    /\ \E o \in {unpack(t.cls, last.outbytes)} :
           last' = [NoCall EXCEPT !.op = "unpack", !.src = "packed", !.cls = t.cls,
                                  !.buf = last.outbytes, !.exc = o.exc, !.ret = o.ret]
    /\ UNCHANGED <<t, a, b, c, res>>

\* type(t).from_hex(t.hex()), the second half
FromHexOfHex ==
    /\ t # NoObj
    /\ last.op = "hex" /\ last.exc = NoExc
    /\ \E o \in {from_hex(t.cls, last.outtext)} :
           last' = [NoCall EXCEPT !.op = "from_hex", !.src = "packed", !.cls = t.cls,
                                  !.text = last.outtext, !.exc = o.exc, !.ret = o.ret]
    /\ UNCHANGED <<t, a, b, c, res>>

\* type(t).from_hex(t.hex() + w), the second half
FromHexLonger ==
    /\ t # NoObj
    /\ last.op = "hex" /\ last.exc = NoExc
    /\ \E w \in TrailSamples :
       \E o \in {from_hex(t.cls, last.outtext \o w)} :
           last' = [NoCall EXCEPT !.op = "from_hex", !.src = "extended", !.cls = t.cls,
                                  !.text = last.outtext \o w, !.exc = o.exc, !.ret = o.ret]
    /\ UNCHANGED <<t, a, b, c, res>>

\* str(t)
Str ==
    /\ t # NoObj
    /\ last' = [NoCall EXCEPT !.op = "str", !.cls = t.cls, !.outtext = str(t)]
    /\ UNCHANGED <<t, a, b, c, res>>

\* t.replace(**kw)
Replace ==
    /\ t # NoObj
    /\ \E kw \in KwSamples :
       \E o \in {replace(t, kw)} :
           /\ last' = [NoCall EXCEPT !.op = "replace", !.cls = t.cls, !.kw = kw,
                                     !.exc = o.exc, !.ret = o.ret]
           /\ t' = o.self
    /\ UNCHANGED <<a, b, c, res>>

\* t = <the instance the last call returned>
Rebind ==
    /\ last.ret # NoObj /\ last.ret # t
    /\ t' = last.ret
    /\ last' = [NoCall EXCEPT !.op = "bind"]
    /\ UNCHANGED <<a, b, c, res>>

\* del t
Drop ==
    /\ t # NoObj
    /\ t' = NoObj
    /\ last' = NoCall
    /\ UNCHANGED <<a, b, c, res>>

Next ==
    \/ New
    \/ NewNonInt
    \/ Unpack
    \/ UnpackLength
    \/ FromHex
    \/ FromHexMalformed
    \/ Pack
    \/ Hex
    \/ Str
    \/ UnpackPacked
    \/ FromHexOfHex
    \/ FromHexLonger
    \/ Replace
    \/ Rebind
    \/ Drop

Spec == Init /\ [][Next]_vars

-----------------------------------------------------------------------------
(* Comparing: a, b and c are three operands and res what the last          *)
(* comparison of them gave.                                                *)

CmpSecs == {IntOf(1), MAX}

CmpNanos == {IntOf(0), IntOf(1), NANO_MAX}

CmpAttos == {IntOf(0), IntOf(1)}

CmpArgs ==
    [cls \in Classes |->
        CASE cls = "tai" -> {<<s>> : s \in CmpSecs}
          [] cls = "tain" -> {<<s, n>> : s \in CmpSecs, n \in CmpNanos}
          [] cls = "taia" -> {<<s, n, z>> : s \in CmpSecs, n \in CmpNanos, z \in CmpAttos}]

\* The instances the constructors return for these arguments.
CmpInstances ==
    UNION {{Construct(cls, args).ret : args \in CmpArgs[cls]} : cls \in Classes} \ {NoObj}

\* Values of types the package knows nothing of.
Foreigners == {Foreign(IntOf(1)), Foreign(PyNone), Foreign(PyStr1)}

Operands == CmpInstances \cup Foreigners

InitCmp ==
    /\ t = NoObj
    /\ last = NoCall
    /\ a \in Operands /\ b \in Operands /\ c \in Operands
    /\ res = NoRes

\* a <op> b, b <op> a, b <op> c and a <op> c
CompareAll ==
    /\ \E op \in Ops :
          res' = [op |-> op, ab |-> RichCompare(a, op, b), ba |-> RichCompare(b, op, a),
                  bc |-> RichCompare(b, op, c), ac |-> RichCompare(a, op, c)]
    /\ UNCHANGED <<t, last, a, b, c>>

\* a == b, hash(a) and hash(b), for two instances
HashBoth ==
    /\ a.cls \in Classes /\ b.cls \in Classes
    /\ res' = [op |-> "hash", eq |-> RichCompare(a, "eq", b), ha |-> hash(a), hb |-> hash(b)]
    /\ UNCHANGED <<t, last, a, b, c>>

\* a < b, a == b, a.pack() and b.pack(), for two instances
PackBoth ==
    /\ a.cls \in Classes /\ b.cls \in Classes
    /\ res' = [op |-> "pack", lt |-> RichCompare(a, "lt", b), eq |-> RichCompare(a, "eq", b),
               pa |-> pack(a).bytes, pb |-> pack(b).bytes]
    /\ UNCHANGED <<t, last, a, b, c>>

NextCmp ==
    \/ CompareAll
    \/ HashBoth
    \/ PackBoth

SpecCmp == InitCmp /\ [][NextCmp]_vars

-----------------------------------------------------------------------------
(* Properties.  The ranges and the byte layout are restated here in their  *)
(* own terms, so that the formulas do not lean on the definitions above.   *)

\* 0 <= v <= 2**63-1: an int that is not negative and whose bit 63 is clear.
SecInRange(v) == v.kind = "int" /\ ~v.neg /\ v.mag[1] < 32768

\* 0 <= v <= 999,999,999
FracInRange(v) ==
    /\ v.kind = "int" /\ ~v.neg
    /\ v.mag[1] = 0 /\ v.mag[2] = 0
    /\ v.mag[3] < 15259
    /\ v.mag[3] * 65536 + v.mag[4] <= 999999999

\* An instance whose slots are those of its class, each within its range.
ValidInstance(x) ==
    /\ x.cls \in Classes
    /\ SecInRange(x.sec)
    /\ IF x.cls = "tai" THEN x.nano = Unset ELSE FracInRange(x.nano)
    /\ IF x.cls = "taia" THEN FracInRange(x.atto) ELSE x.atto = Unset

\* y is an instance of x's type with x's fields, and y == x.
SameAs(x, y) ==
    /\ y.cls = x.cls
    /\ y.sec = x.sec /\ y.nano = x.nano /\ y.atto = x.atto
    /\ RichCompare(y, "eq", x) = "True"

\* C1: for the instance t the caller holds, of any of the three types,
\* unpack(t.pack()) and from_hex(t.hex()) succeed and return an instance of
\* t's type that equals t and has t's sec, nano and atto; and whenever the
\* caller has fed the bytes of t.pack() to unpack, or the text of t.hex() to
\* from_hex, that is what came back.
C1_RoundTrip ==
    /\ t # NoObj =>
          /\ pack(t).exc = NoExc /\ hex(t).exc = NoExc
          /\ unpack(t.cls, pack(t).bytes).exc = NoExc
          /\ SameAs(t, unpack(t.cls, pack(t).bytes).ret)
          /\ from_hex(t.cls, hex(t).text).exc = NoExc
          /\ SameAs(t, from_hex(t.cls, hex(t).text).ret)
    /\ last.src = "packed" => last.exc = NoExc /\ SameAs(t, last.ret)

\* C1 witness: taia(2**63-1, 999999999, 999999999) has gone through hex and
\* from_hex and come back.
C1_Witness ==
    /\ last.op = "from_hex" /\ last.src = "packed"
    /\ t = [cls |-> "taia", sec |-> MAX, nano |-> NANO_MAX, atto |-> NANO_MAX]
    /\ last.ret = t

\* The arguments of the last constructor call, each an int, with one out of
\* its range.
ArgsOutOfRange ==
    \/ ~SecInRange(last.args[1])
    \/ Len(last.args) >= 2 /\ ~FracInRange(last.args[2])
    \/ Len(last.args) >= 3 /\ ~FracInRange(last.args[3])

\* The instance of cls with exactly these fields.
InstanceOf(cls, args) ==
    [cls |-> cls, sec |-> args[1],
     nano |-> IF Len(args) >= 2 THEN args[2] ELSE Unset,
     atto |-> IF Len(args) >= 3 THEN args[3] ELSE Unset]

\* C2: a constructor called with ints, one of them outside its range (sec
\* outside 0..2**63-1, nano or atto outside 0..999,999,999), raises
\* ValueError and returns no instance; called with every int in range it
\* returns the instance with those fields.
C2_RangeEnforced ==
    (last.op = "new" /\ \A i \in 1..Len(last.args) : last.args[i].kind = "int") =>
        IF ArgsOutOfRange
        THEN last.exc.type = "ValueError" /\ last.ret = NoObj /\ t = NoObj
        ELSE last.exc = NoExc /\ last.ret = InstanceOf(last.cls, last.args) /\ t = last.ret

\* C2 witness: taia(2**63-1, 999999999, 1000000000) was refused for its atto.
C2_Witness ==
    /\ last.op = "new" /\ last.cls = "taia"
    /\ last.args = <<MAX, NANO_MAX, IntOf(1000000000)>>
    /\ last.exc = ValueError("atto must be in 0..999_999_999", IntOf(1000000000))
    /\ last.ret = NoObj

\* The unsigned integer that 8 or 4 big-endian bytes spell.
BigEndian(bs) ==
    IF Len(bs) = 8
    THEN IntV(FALSE, <<bs[1] * 256 + bs[2], bs[3] * 256 + bs[4],
                       bs[5] * 256 + bs[6], bs[7] * 256 + bs[8]>>)
    ELSE IntV(FALSE, <<0, 0, bs[1] * 256 + bs[2], bs[3] * 256 + bs[4]>>)

\* The fields a buffer of cls's width spells: sec:u64, nano:u32, atto:u32.
FieldsOf(cls, buf) ==
    CASE cls = "tai" -> <<BigEndian(SubSeq(buf, 1, 8))>>
      [] cls = "tain" -> <<BigEndian(SubSeq(buf, 1, 8)), BigEndian(SubSeq(buf, 9, 12))>>
      [] cls = "taia" -> <<BigEndian(SubSeq(buf, 1, 8)), BigEndian(SubSeq(buf, 9, 12)),
                           BigEndian(SubSeq(buf, 13, 16))>>

\* Four bytes that spell more than 999,999,999 = 0x3b9ac9ff.
WordOver(w) ==
    \E i \in 1..4 : w[i] > <<59, 154, 201, 255>>[i]
                    /\ \A j \in 1..(i - 1) : w[j] = <<59, 154, 201, 255>>[j]

\* A buffer of cls's width with the top bit of sec set, or a nano or atto
\* word over 999,999,999.
BadBuffer(cls, buf) ==
    \/ buf[1] >= 128
    \/ cls # "tai" /\ WordOver(SubSeq(buf, 9, 12))
    \/ cls = "taia" /\ WordOver(SubSeq(buf, 13, 16))

\* The range error the constructor has for a tuple of ints out of range: that
\* of the first field out of its range, with the value.
RangeErrorFor(fields) ==
    IF ~SecInRange(fields[1]) THEN ValueError("sec must be in 0..2**63-1", fields[1])
    ELSE IF ~FracInRange(fields[2])
    THEN ValueError("nano must be in 0..999_999_999", fields[2])
    ELSE ValueError("atto must be in 0..999_999_999", fields[3])

\* buf is what the last unpack was given, or what the text given to the last
\* from_hex spells.
DecodedFrom(buf) ==
    \/ last.op = "unpack" /\ last.buf = buf
    \/ last.op = "from_hex" /\ last.text = BytesHex(buf)

\* C3: unpack of a buffer of exactly the class's width, and from_hex of its
\* hex text, whose sec has the top bit set or whose nano or atto word exceeds
\* 999,999,999, raises the ValueError the constructor raises for the decoded
\* field values and returns no instance.
C3_DecodeValidates ==
    \A buf \in BufSamples[IF last.cls \in Classes THEN last.cls ELSE "tai"] :
        (last.cls \in Classes /\ DecodedFrom(buf) /\ BadBuffer(last.cls, buf)) =>
            /\ last.exc.type = "ValueError"
            /\ last.exc = RangeErrorFor(FieldsOf(last.cls, buf))
            /\ last.exc = Construct(last.cls, FieldsOf(last.cls, buf)).exc
            /\ last.ret = NoObj
            /\ t = NoObj

\* C3 witness: tain.unpack was given sec = 0 and nano = 1000000000 and raised
\* the constructor's error for nano.
C3_Witness ==
    /\ last.op = "unpack" /\ last.cls = "tain"
    /\ last.buf = <<0, 0, 0, 0, 0, 0, 0, 0, 59, 154, 202, 0>>
    /\ last.exc = ValueError("nano must be in 0..999_999_999", IntOf(1000000000))
    /\ last.exc = Construct("tain", <<IntOf(0), IntOf(1000000000)>>).exc
    /\ last.ret = NoObj

\* Every instance in the caller's hands is valid, and a call that raised
\* handed over none.
HeldValid ==
    /\ t # NoObj => ValidInstance(t)
    /\ last.ret # NoObj => ValidInstance(last.ret)
    /\ last.exc # NoExc => last.ret = NoObj

\* C4: through any sequence of constructor, unpack, from_hex, replace, pack
\* and hex calls, failing or not, every instance the caller holds has its
\* fields within their ranges, a call that fails hands over no instance, and
\* a call made while the caller holds t leaves t as it was.
C4_AlwaysValid ==
    /\ HeldValid
    /\ [][/\ HeldValid'
          /\ (t # NoObj /\ last'.op \notin {"bind", "none"}) => t' = t]_vars

\* C4 witness: taia.max refused a replace with atto = -1 and is still taia.max.
C4_Witness ==
    /\ last.op = "replace"
    /\ last.kw = [sec |-> Unset, nano |-> Unset, atto |-> IntOf(-1)]
    /\ last.exc.type = "ValueError" /\ last.ret = NoObj
    /\ t = [cls |-> "taia", sec |-> MAX, nano |-> NANO_MAX, atto |-> NANO_MAX]

\* Byte k of n (k = 1 the most significant) of the unsigned big-endian
\* encoding of v in n bytes: v div 256^(n-k) mod 256.
ByteOf(v, n, k) ==
    IF (n - k) % 2 = 1 THEN v.mag[4 - ((n - k) \div 2)] \div 256
    ELSE v.mag[4 - ((n - k) \div 2)] % 256

\* sec as u64, then nano as u32, then atto as u32, all big-endian.
WireBytes(x) ==
    [k \in 1..8 |-> ByteOf(x.sec, 8, k)]
    \o (IF x.cls = "tai" THEN <<>> ELSE [k \in 1..4 |-> ByteOf(x.nano, 4, k)])
    \o (IF x.cls = "taia" THEN [k \in 1..4 |-> ByteOf(x.atto, 4, k)] ELSE <<>>)

Width(cls) == CASE cls = "tai" -> 8 [] cls = "tain" -> 12 [] cls = "taia" -> 16

\* The code point of a character the vectors of the spec are written in.
CodePoint(ch) ==
    CASE ch = "0" -> 48 [] ch = "1" -> 49 [] ch = "2" -> 50 [] ch = "3" -> 51
      [] ch = "4" -> 52 [] ch = "5" -> 53 [] ch = "6" -> 54 [] ch = "7" -> 55
      [] ch = "8" -> 56 [] ch = "9" -> 57 [] ch = "a" -> 97 [] ch = "b" -> 98
      [] ch = "c" -> 99 [] ch = "d" -> 100 [] ch = "e" -> 101 [] ch = "f" -> 102
      [] ch = "." -> 46 [] ch = "-" -> 45 [] ch = "z" -> 122 [] ch = "!" -> 33

\* The text a sequence of characters spells.
CodePoints(chars) == [i \in 1..Len(chars) |-> CodePoint(chars[i])]

\* The lowercase digit of a value 0..15.
LowerDigit(n) ==
    CodePoint(CASE n = 0 -> "0" [] n = 1 -> "1" [] n = 2 -> "2" [] n = 3 -> "3"
      [] n = 4 -> "4" [] n = 5 -> "5" [] n = 6 -> "6" [] n = 7 -> "7"
      [] n = 8 -> "8" [] n = 9 -> "9" [] n = 10 -> "a" [] n = 11 -> "b"
      [] n = 12 -> "c" [] n = 13 -> "d" [] n = 14 -> "e" [] n = 15 -> "f")

\* The vectors of the spec.
HexVector1 == CodePoints(<<"3", "f", "f", "f", "f", "f", "f", "f", "f", "f", "f", "f", "f", "f", "f", "f">>)

HexVector2 ==
    CodePoints(<<"4", "0", "0", "0", "0", "0", "0", "0", "0", "0", "0", "0", "0", "0", "0", "0",
      "3", "b", "9", "a", "c", "9", "f", "f">>)

HexVector3 ==
    CodePoints(<<"3", "f", "f", "f", "f", "f", "f", "f", "f", "f", "f", "f", "f", "f", "f", "f",
      "0", "0", "0", "0", "0", "0", "0", "0", "0", "0", "0", "0", "0", "0", "0", "1">>)

\* C10: t.pack() is exactly 8 (tai), 12 (tain) or 16 (taia) bytes, sec as a
\* big-endian u64 followed by nano and atto as big-endian u32; t.hex() is the
\* lowercase hex of those bytes, two characters a byte; t.size is the packed
\* length; and the three vectors of the spec come out as written.
C10_WireLayout ==
    /\ last.op = "pack" =>
          /\ last.exc = NoExc
          /\ Len(last.outbytes) = Width(t.cls)
          /\ last.outbytes = WireBytes(t)
          /\ size(t) = Len(last.outbytes)
    /\ last.op = "hex" =>
          /\ last.exc = NoExc
          /\ Len(last.outtext) = 2 * Width(t.cls)
          /\ \A k \in 1..Width(t.cls) :
                /\ last.outtext[2 * k - 1] = LowerDigit(WireBytes(t)[k] \div 16)
                /\ last.outtext[2 * k] = LowerDigit(WireBytes(t)[k] % 16)
          /\ t = [cls |-> "tai", sec |-> IntSub(IntPow2(62), IntOf(1)), nano |-> Unset,
                  atto |-> Unset] => last.outtext = HexVector1
          /\ t = [cls |-> "tain", sec |-> IntPow2(62), nano |-> IntOf(999999999),
                  atto |-> Unset] => last.outtext = HexVector2
          /\ t = [cls |-> "taia", sec |-> IntSub(IntPow2(62), IntOf(1)), nano |-> IntOf(0),
                  atto |-> IntOf(1)] => last.outtext = HexVector3

\* C10 witness: taia(2**62-1, 0, 1).hex() gave 3fffffffffffffff0000000000000001.
C10_Witness ==
    /\ last.op = "hex"
    /\ t = [cls |-> "taia", sec |-> IntSub(IntPow2(62), IntOf(1)), nano |-> IntOf(0),
            atto |-> IntOf(1)]
    /\ last.outtext = HexVector3

-----------------------------------------------------------------------------
(* Comparison.  The expected answers are computed here on the positions    *)
(* of the field values in their ascending order, with plain integers.      *)

\* The position of a compared field value in 0 < 1 < 999,999,999 < 2^62 < 2^63-1.
Rank(v) ==
    CASE v = IntOf(0) -> 0
      [] v = IntOf(1) -> 1
      [] v = IntOf(999999999) -> 2
      [] v = IntPow2(62) -> 3
      [] v = IntSub(IntPow2(63), IntOf(1)) -> 4

\* A missing field counts as zero.
Zero(v) == IF v = Unset THEN IntOf(0) ELSE v

\* The field tuple of an instance, zero-extended to (sec, nano, atto).
Ext(x) == <<Rank(x.sec), Rank(Zero(x.nano)), Rank(Zero(x.atto))>>

LexLt(x, y) ==
    \/ x[1] < y[1]
    \/ x[1] = y[1] /\ x[2] < y[2]
    \/ x[1] = y[1] /\ x[2] = y[2] /\ x[3] < y[3]

Expected(op, x, y) ==
    CASE op = "eq" -> x = y
      [] op = "ne" -> x # y
      [] op = "lt" -> LexLt(x, y)
      [] op = "le" -> LexLt(x, y) \/ x = y
      [] op = "gt" -> LexLt(y, x)
      [] op = "ge" -> LexLt(y, x) \/ x = y

Truth(p) == IF p THEN "True" ELSE "False"

Converse(op) ==
    CASE op = "lt" -> "gt"
      [] op = "le" -> "ge"
      [] op = "gt" -> "lt"
      [] op = "ge" -> "le"
      [] op = "eq" -> "eq"
      [] op = "ne" -> "ne"

IsInstance(x) == x.cls \in {"tai", "tain", "taia"}

Compared == res.op \in {"eq", "ne", "lt", "le", "gt", "ge"}

\* tain(sec, 0) for a tai of that sec.
Widened(x) == [cls |-> "tain", sec |-> x.sec, nano |-> IntOf(0), atto |-> Unset]

\* C5: cross-type equality.  tai(sec) == tain(sec, 0), tain(sec, 0) ==
\* taia(sec, 0, 0) and tai(sec) == taia(sec, 0, 0) are true and tai(sec) !=
\* tain(sec, 1) is true; for instances of two different classes == is true
\* exactly when the zero-extended field tuples are equal and != is its
\* negation, whichever operand is on the left.
C5_CrossTypeEquality ==
    /\ (Compared /\ IsInstance(a) /\ IsInstance(b) /\ a.cls # b.cls /\ res.op = "eq") =>
          /\ res.ab = Truth(Ext(a) = Ext(b))
          /\ res.ba = Truth(Ext(a) = Ext(b))
    /\ (Compared /\ IsInstance(a) /\ IsInstance(b) /\ a.cls # b.cls /\ res.op = "ne") =>
          /\ res.ab = Truth(Ext(a) # Ext(b))
          /\ res.ba = Truth(Ext(a) # Ext(b))
    /\ (res.op = "eq" /\ a.cls = "tai" /\ b = Widened(a)) => res.ab = "True"
    /\ (res.op = "eq" /\ b.cls = "tain" /\ b.nano = IntOf(0)
          /\ c = [cls |-> "taia", sec |-> b.sec, nano |-> IntOf(0), atto |-> IntOf(0)]) =>
          res.bc = "True"
    /\ (res.op = "eq" /\ a.cls = "tai"
          /\ c = [cls |-> "taia", sec |-> a.sec, nano |-> IntOf(0), atto |-> IntOf(0)]) =>
          res.ac = "True"
    /\ (res.op = "ne" /\ a.cls = "tai"
          /\ b = [cls |-> "tain", sec |-> a.sec, nano |-> IntOf(1), atto |-> Unset]) =>
          res.ab = "True"

\* tai(2^63-1) == taia(2^63-1, 0, 0) was evaluated both ways and is true.
C5_Witness ==
    /\ res.op = "eq"
    /\ a = [cls |-> "tai", sec |-> IntSub(IntPow2(63), IntOf(1)), nano |-> Unset, atto |-> Unset]
    /\ b = [cls |-> "taia", sec |-> a.sec, nano |-> IntOf(0), atto |-> IntOf(0)]
    /\ res.ab = "True" /\ res.ba = "True"

\* C6: same-type ordering.  For two instances of one class each of the six
\* operators returns that operator applied to the field tuples compared
\* lexicographically; tai(sec1) < tai(sec2) exactly when sec1 < sec2; and <=
\* within one class is a total order (antisymmetric, total, transitive).
C6_SameTypeOrder ==
    /\ (Compared /\ IsInstance(a) /\ a.cls = b.cls) =>
          /\ res.ab = Truth(Expected(res.op, Ext(a), Ext(b)))
          /\ res.ba = Truth(Expected(res.op, Ext(b), Ext(a)))
    /\ (res.op = "lt" /\ a.cls = "tai" /\ b.cls = "tai") =>
          res.ab = Truth(Rank(a.sec) < Rank(b.sec))
    /\ (res.op = "le" /\ IsInstance(a) /\ a.cls = b.cls) =>
          /\ (res.ab = "True" /\ res.ba = "True") => a = b
          /\ res.ab = "True" \/ res.ba = "True"
    /\ (res.op = "le" /\ IsInstance(a) /\ a.cls = b.cls /\ b.cls = c.cls) =>
          ((res.ab = "True" /\ res.bc = "True") => res.ac = "True")

\* Two taia that differ in atto alone were compared with <.
C6_Witness ==
    /\ res.op = "lt"
    /\ a.cls = "taia" /\ b.cls = "taia"
    /\ a.sec = b.sec /\ a.nano = b.nano /\ a.atto = IntOf(0) /\ b.atto = IntOf(1)
    /\ res.ab = "True" /\ res.ba = "False"

\* C7: cross-precision ordering.  For instances of two different classes
\* each of <, <=, >, >= returns the lexicographic comparison of the field
\* tuples after the coarser one is padded with zeros, with the finer or the
\* coarser operand on the left, and x < y agrees with y > x.
C7_CrossPrecisionOrder ==
    (Compared /\ IsInstance(a) /\ IsInstance(b) /\ a.cls # b.cls
        /\ res.op \in {"lt", "le", "gt", "ge"}) =>
       /\ res.ab = Truth(Expected(res.op, Ext(a), Ext(b)))
       /\ res.ba = Truth(Expected(res.op, Ext(b), Ext(a)))
       /\ res.ab = RichCompare(b, Converse(res.op), a)

\* tai(1) < taia(1, 0, 1): the coarser operand on the left, decided by atto.
C7_Witness ==
    /\ res.op = "lt"
    /\ a = [cls |-> "tai", sec |-> IntOf(1), nano |-> Unset, atto |-> Unset]
    /\ b = [cls |-> "taia", sec |-> IntOf(1), nano |-> IntOf(0), atto |-> IntOf(1)]
    /\ res.ab = "True" /\ res.ba = "False"

\* C8: the combined relation.  For instances a, b, c of any mix of classes
\* a <= b and b <= c imply a <= c, a == b and b == c imply a == c, and a tai
\* compared with a taia gives what tain(sec, 0) compared with it gives.
C8_CombinedTransitive ==
    /\ (res.op \in {"le", "eq"} /\ IsInstance(a) /\ IsInstance(b) /\ IsInstance(c)) =>
          ((res.ab = "True" /\ res.bc = "True") => res.ac = "True")
    /\ (Compared /\ a.cls = "tai" /\ c.cls = "taia") =>
          /\ res.ac = RichCompare(Widened(a), res.op, c)
          /\ b = Widened(a) => res.ac = res.bc

\* tai <= tain(sec, 0) <= taia held along a chain of the three classes, the
\* middle one the widening of the first.
C8_Witness ==
    /\ res.op = "le"
    /\ a.cls = "tai" /\ b = Widened(a) /\ c.cls = "taia"
    /\ c.sec = a.sec /\ c.nano = IntOf(0) /\ c.atto = IntOf(1)
    /\ res.ab = "True" /\ res.bc = "True" /\ res.ac = "True"

\* C9 as stated: with an operand of an unrelated type every one of the six
\* operators, == and != included, signals the unsupported comparison and
\* none returns true or false.
C9_AllOperatorsRaise ==
    (Compared /\ IsInstance(a) /\ ~IsInstance(b)) =>
       (res.ab = "TypeError" /\ res.ba = "TypeError")

\* C9, amended: with an operand of an unrelated type (int, str, None) each
\* of the instance's six comparison methods returns NotImplemented; <, <=, >
\* and >= then raise TypeError with the operands in either order, while ==
\* evaluates to False and != to True.
C9_UnrelatedType ==
    (Compared /\ IsInstance(a) /\ ~IsInstance(b)) =>
       /\ Method(a, res.op, b) = "NotImplemented"
       /\ res.op \in {"lt", "le", "gt", "ge"} => (res.ab = "TypeError" /\ res.ba = "TypeError")
       /\ res.op = "eq" => (res.ab = "False" /\ res.ba = "False")
       /\ res.op = "ne" => (res.ab = "True" /\ res.ba = "True")

\* tai(1) == 1 was evaluated and gave False.
C9_Witness ==
    /\ res.op = "eq"
    /\ a = [cls |-> "tai", sec |-> IntOf(1), nano |-> Unset, atto |-> Unset]
    /\ b.cls = "int" /\ b.sec = IntOf(1)
    /\ res.ab = "False" /\ res.ba = "False"

-----------------------------------------------------------------------------
(* Hex text with trailing characters *)

\* The first n characters of text are the lowercase hex of the bytes bs.
SpelledBy(text, bs) ==
    /\ Len(text) >= 2 * Len(bs)
    /\ \A k \in 1..Len(bs) :
          /\ text[2 * k - 1] = LowerDigit(bs[k] \div 16)
          /\ text[2 * k] = LowerDigit(bs[k] % 16)

\* C11: from_hex(t.hex() + w), for the instance t the caller holds and any
\* trailing characters w (hex digits or not, an odd or even number),
\* succeeds and returns an instance of t's type equal to t: the first 16, 24
\* or 32 characters alone are decoded and the rest is ignored.
C11_HexPrefix ==
    (last.op = "from_hex" /\ last.src = "extended") =>
       /\ Len(last.text) > 2 * Width(t.cls)
       /\ last.exc = NoExc
       /\ SameAs(t, last.ret)
       /\ SpelledBy(last.text, WireBytes(last.ret))

\* taia.max came back from its hex text followed by "zz!".
C11_Witness ==
    /\ last.op = "from_hex" /\ last.src = "extended"
    /\ Len(last.text) = 35 /\ last.text[33] = CodePoint("z") /\ last.text[35] = CodePoint("!")
    /\ t = [cls |-> "taia", sec |-> IntSub(IntPow2(63), IntOf(1)),
            nano |-> IntOf(999999999), atto |-> IntOf(999999999)]
    /\ last.ret = t

-----------------------------------------------------------------------------
(* replace *)

\* The keywords name fields of the class only.
Applicable(cls, kw) ==
    /\ cls = "tai" => (kw.nano = Unset /\ kw.atto = Unset)
    /\ cls = "tain" => kw.atto = Unset

\* The override when one is given, the instance's own value otherwise.
Pick(v, own) == IF v = Unset THEN own ELSE v

\* The fields of x with the overrides of kw put in.
Merged(x, kw) ==
    CASE x.cls = "tai" -> <<Pick(kw.sec, x.sec)>>
      [] x.cls = "tain" -> <<Pick(kw.sec, x.sec), Pick(kw.nano, x.nano)>>
      [] x.cls = "taia" -> <<Pick(kw.sec, x.sec), Pick(kw.nano, x.nano), Pick(kw.atto, x.atto)>>

FieldsOutOfRange(m) ==
    \/ ~SecInRange(m[1])
    \/ Len(m) >= 2 /\ ~FracInRange(m[2])
    \/ Len(m) >= 3 /\ ~FracInRange(m[3])

\* C12: t.replace() with no overrides returns an instance of t's type equal
\* to t; t.replace(...) with fields overridden returns what the constructor
\* of t's type returns for the overrides together with t's values for the
\* fields left out: the instance with exactly those fields when all are in
\* range, the constructor's range error and no instance otherwise; and t is
\* the same after the call as before.
C12_ReplaceMerges ==
    [][(last'.op = "replace" /\ t # NoObj /\ Applicable(t.cls, last'.kw)) =>
          /\ t' = t
          /\ last'.exc = Construct(t.cls, Merged(t, last'.kw)).exc
          /\ last'.ret = Construct(t.cls, Merged(t, last'.kw)).ret
          /\ last'.kw = NoKw => (last'.exc = NoExc /\ SameAs(t, last'.ret))
          /\ IF FieldsOutOfRange(Merged(t, last'.kw))
             THEN last'.exc = RangeErrorFor(Merged(t, last'.kw)) /\ last'.ret = NoObj
             ELSE last'.exc = NoExc
                  /\ last'.ret = InstanceOf(t.cls, Merged(t, last'.kw))]_vars

\* tain(0, 999999999).replace(nano=1) gave tain(0, 1) and left the receiver.
C12_Witness ==
    /\ last.op = "replace"
    /\ last.kw = [sec |-> Unset, nano |-> IntOf(1), atto |-> Unset]
    /\ t = [cls |-> "tain", sec |-> IntOf(0), nano |-> IntOf(999999999), atto |-> Unset]
    /\ last.ret = [cls |-> "tain", sec |-> IntOf(0), nano |-> IntOf(1), atto |-> Unset]

-----------------------------------------------------------------------------
(* Arguments that are not integral numbers *)

NotIntegral(v) == v.kind \in {"NoneType", "float", "str"}

SomeNotIntegral(args) == \E i \in 1..Len(args) : NotIntegral(args[i])

\* Argument i is an int outside the range of field i.
OutOfRangeAt(args, i) ==
    /\ args[i].kind = "int"
    /\ IF i = 1 THEN ~SecInRange(args[i]) ELSE ~FracInRange(args[i])

\* The first argument, in the order sec, nano, atto, that the constructor
\* cannot take.
FirstOffending(args) ==
    CHOOSE i \in 1..Len(args) :
        /\ NotIntegral(args[i]) \/ OutOfRangeAt(args, i)
        /\ \A j \in 1..(i - 1) : ~(NotIntegral(args[j]) \/ OutOfRangeAt(args, j))

\* C13 as stated: a constructor given a value that is not an integral number
\* as sec, nano or atto fails with TypeError, never with a range error and
\* never by constructing an instance.
C13_TypeErrorAlways ==
    (last.op = "new" /\ SomeNotIntegral(last.args)) =>
       (last.exc.type = "TypeError" /\ last.ret = NoObj)

\* C13, amended: a constructor given a value that is not an integral number
\* as sec, nano or atto constructs no instance; it fails with TypeError when
\* every argument before that value is an integer within its range, and
\* with the range error of the first out-of-range integer argument when one
\* comes before it (the arguments are taken in the order sec, nano, atto and
\* the first that cannot be taken decides).
C13_TypeErrorFirst ==
    (last.op = "new" /\ SomeNotIntegral(last.args)) =>
       /\ last.ret = NoObj /\ t = NoObj
       /\ IF NotIntegral(last.args[FirstOffending(last.args)])
          THEN last.exc.type = "TypeError"
          ELSE /\ last.exc.type = "ValueError"
               /\ last.exc.val = last.args[FirstOffending(last.args)]

\* taia(1, 1, '1') was refused with TypeError.
C13_Witness ==
    /\ last.op = "new" /\ last.cls = "taia"
    /\ last.args = <<IntOf(1), IntOf(1), PyStr1>>
    /\ last.exc.type = "TypeError" /\ last.ret = NoObj

-----------------------------------------------------------------------------
(* The length of the buffer given to unpack *)

\* The leading fields of a buffer of at least cls's width are in range.
LeadingInRange(cls, buf) == Len(buf) >= Width(cls) /\ ~BadBuffer(cls, buf)

\* C14 as stated: unpack needs the buffer to be at least the class's width:
\* a buffer of at least that many bytes whose leading fields are in range
\* decodes to the instance with those fields, and a shorter one fails with a
\* decode-format error and yields no instance.
C14_AtLeastWidth ==
    last.op = "unpack" =>
       /\ LeadingInRange(last.cls, last.buf) =>
             /\ last.exc = NoExc
             /\ last.ret = InstanceOf(last.cls, FieldsOf(last.cls, last.buf))
       /\ Len(last.buf) < Width(last.cls) =>
             (last.exc.type = "struct.error" /\ last.ret = NoObj)

\* C14, amended: unpack needs the buffer to be exactly the class's width (8,
\* 12 or 16 bytes): a buffer of that many bytes whose fields are in range
\* decodes to the instance with those big-endian fields, and a buffer that is
\* shorter or longer fails with a decode-format error (struct.error), which
\* is not the range error, and yields no instance.
C14_ExactWidth ==
    last.op = "unpack" =>
       /\ (Len(last.buf) = Width(last.cls) /\ ~BadBuffer(last.cls, last.buf)) =>
             /\ last.exc = NoExc
             /\ last.ret = InstanceOf(last.cls, FieldsOf(last.cls, last.buf))
       /\ Len(last.buf) # Width(last.cls) =>
             /\ last.exc.type = "struct.error"
             /\ last.exc.type # "ValueError"
             /\ last.ret = NoObj
             /\ last.src = "length" => t = NoObj

\* tai.unpack was given the 8 bytes of 2**62 and one byte more, and refused.
C14_Witness ==
    /\ last.op = "unpack" /\ last.cls = "tai"
    /\ last.buf = <<64, 0, 0, 0, 0, 0, 0, 0, 0>>
    /\ last.exc.type = "struct.error"
    /\ last.ret = NoObj /\ t = NoObj

-----------------------------------------------------------------------------
(* The string form, read back: the digits of a text give its value by      *)
(* Horner's rule.                                                          *)

DigitChars == <<"0", "1", "2", "3", "4", "5", "6", "7", "8", "9">>

IsDigit(ch) == \E d \in 1..10 : ch = CodePoint(DigitChars[d])

DigitValue(ch) == (CHOOSE d \in 1..10 : ch = CodePoint(DigitChars[d])) - 1

\* The carry into limb i of 10 * x + d.
RECURSIVE CarryTen(_, _, _)
CarryTen(x, d, i) ==
    IF i = 4 THEN d ELSE (x[i + 1] * 10 + CarryTen(x, d, i + 1)) \div 65536

\* 10 * x + d on four 16-bit limbs.
TenTimesPlus(x, d) == [i \in 1..4 |-> (x[i] * 10 + CarryTen(x, d, i)) % 65536]

\* The number a sequence of decimal digits spells.
RECURSIVE DecimalValue(_)
DecimalValue(ds) ==
    IF ds = <<>> THEN <<0, 0, 0, 0>>
    ELSE TenTimesPlus(DecimalValue(SubSeq(ds, 1, Len(ds) - 1)), DigitValue(ds[Len(ds)]))

\* ds is the decimal of v with no sign and no leading zero.
BareDecimalOf(ds, v) ==
    /\ Len(ds) >= 1
    /\ \A i \in 1..Len(ds) : IsDigit(ds[i])
    /\ Len(ds) > 1 => ds[1] # CodePoint("0")
    /\ DecimalValue(ds) = v.mag

\* ds is v in exactly 9 digits, zeros in front.
NineDigitsOf(ds, v) ==
    /\ Len(ds) = 9
    /\ \A i \in 1..9 : IsDigit(ds[i])
    /\ DecimalValue(ds) = v.mag

DotAt(text) == CHOOSE i \in 1..Len(text) : text[i] = CodePoint(".")

BeforeDot(text) == SubSeq(text, 1, DotAt(text) - 1)

AfterDot(text) == SubSeq(text, DotAt(text) + 1, Len(text))

IsZeroInt(v) == v = IntOf(0)

\* '<sec>.' and the fraction that nano and atto ask for.
FractionForm(text, x) ==
    /\ \E i \in 1..Len(text) : text[i] = CodePoint(".")
    /\ BareDecimalOf(BeforeDot(text), x.sec)
    /\ (x.cls = "taia" /\ ~IsZeroInt(x.atto)) =>
          /\ Len(AfterDot(text)) = 18
          /\ NineDigitsOf(SubSeq(AfterDot(text), 1, 9), x.nano)
          /\ NineDigitsOf(SubSeq(AfterDot(text), 10, 18), x.atto)
    /\ ((x.cls = "tain" \/ IsZeroInt(x.atto)) /\ ~IsZeroInt(x.nano)) =>
          NineDigitsOf(AfterDot(text), x.nano)
    /\ ((x.cls = "tain" \/ IsZeroInt(x.atto)) /\ IsZeroInt(x.nano)) =>
          AfterDot(text) = CodePoints(<<"0">>)

StrVector1 == CodePoints(<<"0", ".", "0", "0", "0", "0", "0", "0", "0", "0", "1">>)

StrVector2 ==
    CodePoints(<<"0", ".", "0", "0", "0", "0", "0", "0", "0", "0", "0",
      "0", "0", "0", "0", "0", "0", "0", "0", "1">>)

StrVector3 ==
    CodePoints(<<"9", "2", "2", "3", "3", "7", "2", "0", "3", "6", "8", "5", "4", "7", "7", "5", "8",
      "0", "7", ".", "9", "9", "9", "9", "9", "9", "9", "9", "9", "9", "9", "9", "9", "9",
      "9", "9", "9", "9">>)

\* C15: str(t) is the bare decimal of sec for a tai; for a tain '<sec>.0'
\* when nano is 0 and otherwise '<sec>.' and nano in exactly 9 digits; for a
\* taia '<sec>.' with nano and atto in 9 digits each when atto is not 0,
\* '<sec>.' with nano in 9 digits when atto is 0 and nano is not, and
\* '<sec>.0' when both are 0; tain(0, 1), taia(0, 0, 1) and taia.max give
\* '0.000000001', '0.000000000000000001' and
\* '9223372036854775807.999999999999999999'.
C15_StringForm ==
    last.op = "str" =>
       /\ t.cls = "tai" => BareDecimalOf(last.outtext, t.sec)
       /\ t.cls # "tai" => FractionForm(last.outtext, t)
       /\ t = [cls |-> "tain", sec |-> IntOf(0), nano |-> IntOf(1), atto |-> Unset] =>
             last.outtext = StrVector1
       /\ t = [cls |-> "taia", sec |-> IntOf(0), nano |-> IntOf(0), atto |-> IntOf(1)] =>
             last.outtext = StrVector2
       /\ t = [cls |-> "taia", sec |-> IntSub(IntPow2(63), IntOf(1)),
               nano |-> IntOf(999999999), atto |-> IntOf(999999999)] =>
             last.outtext = StrVector3

\* str(taia(0, 0, 1)) came out with both fields padded.
C15_Witness ==
    /\ last.op = "str"
    /\ t = [cls |-> "taia", sec |-> IntOf(0), nano |-> IntOf(0), atto |-> IntOf(1)]
    /\ last.outtext = StrVector2

-----------------------------------------------------------------------------
(* Hashing *)

\* C16: for two instances a and b of any of the three types, of the same or
\* of different precision, a == b implies hash(a) == hash(b); so tai(sec),
\* tain(sec, 0) and taia(sec, 0, 0), which compare equal, hash identically.
C16_EqualHashEqual ==
    (res.op = "hash" /\ res.eq = "True") => res.ha = res.hb

-----------------------------------------------------------------------------
(* Order of the encodings *)

\* x < y for two byte strings of one length, byte by byte from the front.
BytesLess(x, y) ==
    \E i \in 1..Len(x) : x[i] < y[i] /\ \A j \in 1..(i - 1) : x[j] = y[j]

\* C17: for two instances a and b of the same type, a < b exactly when
\* a.pack() is less than b.pack() byte by byte (the two being of one width,
\* that is their order as big-endian unsigned integers), and a == b exactly
\* when a.pack() == b.pack(); and the top bit of every encoded sec is 0, so
\* the first 8 bytes read as a signed 64-bit integer are never negative.
C17_OrderPreserving ==
    /\ (res.op = "pack" /\ a.cls = b.cls) =>
          /\ Len(res.pa) = Len(res.pb)
          /\ (res.lt = "True") <=> BytesLess(res.pa, res.pb)
          /\ (res.eq = "True") <=> (res.pa = res.pb)
          /\ res.lt \in {"True", "False"} /\ res.eq \in {"True", "False"}
    /\ res.op = "pack" =>
          /\ Len(res.pa) >= 8 /\ res.pa[1] < 128
          /\ Len(res.pb) >= 8 /\ res.pb[1] < 128

\* Two taia that differ in atto alone were packed: the smaller one first.
C17_Witness ==
    /\ res.op = "pack"
    /\ a = [cls |-> "taia", sec |-> IntSub(IntPow2(63), IntOf(1)), nano |-> IntOf(999999999),
            atto |-> IntOf(0)]
    /\ b = [a EXCEPT !.atto = IntOf(1)]
    /\ res.lt = "True" /\ BytesLess(res.pa, res.pb)
    /\ res.pa[1] = 127

====
